---- MODULE Spec2Model ----
(***************************************************************************)
(* Snake (kasperhhk/snake): the game simulation and its driver.            *)
(*                                                                         *)
(* Two revisions of the one source file are modelled:                      *)
(*   "part_000"      src/unnamed/part_000 -- initGame/restart, gameOver,   *)
(*                    the _subscriptions array and the subEnd handler;     *)
(*   "app.component" src/src/app/app.component.ts -- the game is set up   *)
(*                    once in ngAfterViewInit, nothing but takeUntil       *)
(*                    reacts to died$.                                     *)
(* The classes Snake, Cheese, CheeseFactory, Position, PositionContext and *)
(* Direction are the same in both; line numbers below are those of         *)
(* src/unnamed/part_000 unless stated otherwise.                           *)
(*                                                                         *)
(* JavaScript runs every callback to completion, so each timer callback,   *)
(* each key event and restart() is one atomic action.                      *)
(***************************************************************************)
EXTENDS Integers, Sequences, FiniteSets

VARIABLES
    revision,         \* which of the two source files runs
    positionContext,  \* AppComponent._positionContext (the domains)
    cheeseFactory,    \* AppComponent._cheeseFactory (its _food interval)
    snake,            \* AppComponent._snake: the Snake object's fields
    cheese,           \* AppComponent._cheese
    gameOver,         \* AppComponent.gameOver
    game,             \* which initGame call built the current snake
    subs,             \* per initGame call: which of its subscriptions are live
    subscriptions,    \* AppComponent._subscriptions: 0 for null, else the game
    ticks,            \* history: AppComponent.tick calls on the current snake
    kills,            \* history: kill() calls on the current snake
    notified,         \* history: runs of the current game's subEnd handler
    redraws,          \* history: redraw() calls since the current snake died
    growth,           \* history: the last eat() on the current snake: the
                      \* length then, the tick it came in, the cheese's
                      \* food, the pending food before it, whether alive
    eaten,            \* history: sum of the food of the cheeses the current
                      \* snake ate
    thrown,           \* history: generatePosition threw in the current game
    call              \* the last direct call of a Position or
                      \* PositionContext method, with its result

vars == <<revision, positionContext, cheeseFactory, snake, cheese, gameOver,
          game, subs, subscriptions, ticks, kills, notified, redraws, growth,
          eaten, thrown, call>>

(***************************************************************************)
(* Bounds of the model.                                                    *)
(***************************************************************************)
MaxTicks == 3      \* AppComponent.tick calls per game, under Spec
MaxLongTicks == 7  \* AppComponent.tick calls in the one game of SpecLong
MaxGames == 2      \* initGame calls (the first one plus restarts)
MaxRedraws == 2    \* redraw() calls counted after a death
Domains == {<<0, 2>>, <<-1, 2>>}  \* per-axis domains tried (the source: [0,20])
FoodIntervals == {<<1, 2>>}       \* CheeseFactory._food tried (the source: [1,15])
MaxScenarioTicks == 5  \* AppComponent.tick calls under SpecScenario
MaxArg == 6        \* coordinates passed to the direct calls: -MaxArg..MaxArg
MaxIndex == 9      \* indexes passed to Position.fromIndex: 0..MaxIndex
CallDomains == {<<0, 2>>, <<-1, 2>>, <<-4, -2>>}  \* domains of the direct calls

(***************************************************************************)
(* Program constants.                                                      *)
(***************************************************************************)
StartX == 5
StartY == 5
InitialFood == 4

Games == 1..MaxGames

\* ------------------------------------------------------------- Direction
up == [dx |-> 0, dy |-> -1]
down == [dx |-> 0, dy |-> 1]
left == [dx |-> -1, dy |-> 0]
right == [dx |-> 1, dy |-> 0]
Directions == {up, down, left, right}

\* the falsy value of Snake._nextDirection (undefined or null)
null == [dx |-> 0, dy |-> 0]

\* isTurn written as "not the same direction": a reversal passes
isTurnUnlessSame(d, previous) ==
    ~(d.dx = previous.dx /\ d.dy = previous.dy)

\* isTurn written as "not the opposite direction": a repeat passes
isTurnUnlessOpposite(d, previous) ==
    ~(d.dx = -previous.dx /\ d.dy = -previous.dy)

\* Direction.isTurn
isTurn(d, previous) ==
    /\ ~(d.dx = previous.dx \/ d.dx = -previous.dx)
    /\ ~(d.dy = previous.dy \/ d.dy = -previous.dy)

\* ------------------------------------------------------- PositionContext
\* PositionContext.getWidths, the domain width of one axis
domainWidth(axis) == axis.domain[2] - axis.domain[1]

\* applyDomainVector without its first loop
applyDomainLowSkipped(val, axis) == val

RECURSIVE applyDomainLow(_, _)
\* first loop of applyDomainVector: while (val < domain[0]) val += width
applyDomainLow(val, axis) ==
    IF val < axis.domain[1]
    THEN applyDomainLow(val + domainWidth(axis), axis)
    ELSE val

\* the second loop as an if: one fold only
applyDomainHighOnce(val, axis) ==
    IF val >= axis.domain[2]
    THEN axis.domain[1] + (val - axis.domain[2])
    ELSE val

RECURSIVE applyDomainHigh(_, _)
\* second loop: while (val >= domain[1]) val = domain[0] + (val - domain[1])
applyDomainHigh(val, axis) ==
    IF val >= axis.domain[2]
    THEN applyDomainHigh(axis.domain[1] + (val - axis.domain[2]), axis)
    ELSE val

\* PositionContext.applyDomainVector
applyDomainVector(val, axis) == applyDomainHigh(applyDomainLow(val, axis), axis)

\* PositionContext.applyDomain
applyDomain(x, y, ctx) ==
    <<applyDomainVector(x, ctx.x), applyDomainVector(y, ctx.y)>>

\* -------------------------------------------------------------- Position
\* Position.constructor
Position(x, y, ctx) ==
    LET xy == applyDomain(x, y, ctx) IN [x |-> xy[1], y |-> xy[2]]

\* Position.createModified
createModified(p, dx, dy, ctx) == Position(p.x + dx, p.y + dy, ctx)

\* getIndex multiplying by the width of the wrong axis
getIndexByHeight(p, ctx) ==
    (p.x - ctx.x.domain[1]) + domainWidth(ctx.y) * (p.y - ctx.y.domain[1])

\* Position.getIndex
getIndex(p, ctx) ==
    (p.x - ctx.x.domain[1]) + domainWidth(ctx.x) * (p.y - ctx.y.domain[1])

\* Position.fromIndex, for an index that is not negative
fromIndex(index, ctx) ==
    Position((index % domainWidth(ctx.x)) + ctx.x.domain[1],
             (index \div domainWidth(ctx.x)) + ctx.y.domain[1], ctx)

\* Position.equals against another Position
equals(p, other) == other.x = p.x /\ other.y = p.y

\* Position.equals against a raw [x, y] pair
equalsPair(p, pair) == pair[1] = p.x /\ pair[2] = p.y

\* applyTo passing the two offsets in the wrong order
applyToSwapped(d, position, ctx) == createModified(position, d.dy, d.dx, ctx)

\* Direction.applyTo
applyTo(d, position, ctx) == createModified(position, d.dx, d.dy, ctx)

\* ----------------------------------------------------------------- Snake
\* the constructor leaving the start cell out of the segment list
NewSnakeEmpty(start, initialFood, initialDirection) ==
    [direction |-> initialDirection,
     nextDirection |-> null,
     segments |-> <<>>,
     food |-> initialFood,
     dead |-> FALSE]

\* Snake.constructor
NewSnake(start, initialFood, initialDirection) ==
    [direction |-> initialDirection,
     nextDirection |-> null,
     segments |-> <<start>>,
     food |-> initialFood,
     dead |-> FALSE]

\* Snake.head
head(s) == s.segments[1]

\* the setter writing the committed direction instead of the queued one
setDirectionNow(s, newDirection) == [s EXCEPT !.direction = newDirection]

\* Snake.direction setter
setDirection(s, newDirection) == [s EXCEPT !.nextDirection = newDirection]

\* eat with = in place of +=
eatReplacing(s, c) == [s EXCEPT !.food = c.food]

\* Snake.eat
eat(s, c) == [s EXCEPT !.food = s.food + c.food]

\* Snake.kill, the field it writes (the died$ emission is in Died below)
kill(s) == [s EXCEPT !.dead = TRUE]

\* tick dropping the tail whether or not food is pending
SnakeTickAlwaysPops(s, ctx) ==
    LET dir == IF s.nextDirection # null THEN s.nextDirection ELSE s.direction
        newhead == applyTo(dir, head(s), ctx)
    IN  [s EXCEPT
            !.direction = dir,
            !.nextDirection = null,
            !.segments = <<newhead>> \o SubSeq(s.segments, 1, Len(s.segments) - 1),
            !.food = IF s.food > 0 THEN s.food - 1 ELSE s.food]

\* tick never using up the pending food
SnakeTickKeepsFood(s, ctx) ==
    LET dir == IF s.nextDirection # null THEN s.nextDirection ELSE s.direction
        newhead == applyTo(dir, head(s), ctx)
        grown == <<newhead>> \o s.segments
    IN  [s EXCEPT
            !.direction = dir,
            !.nextDirection = null,
            !.segments = IF s.food > 0 THEN grown
                         ELSE SubSeq(grown, 1, Len(grown) - 1)]

\* Snake.tick
SnakeTick(s, ctx) ==
    LET dir == IF s.nextDirection # null THEN s.nextDirection ELSE s.direction
        newhead == applyTo(dir, head(s), ctx)
        grown == <<newhead>> \o s.segments
    IN  [s EXCEPT
            !.direction = dir,
            !.nextDirection = null,
            !.segments = IF s.food > 0 THEN grown
                         ELSE SubSeq(grown, 1, Len(grown) - 1),
            !.food = IF s.food > 0 THEN s.food - 1 ELSE s.food]

\* --------------------------------------------------------- CheeseFactory
\* the cells in the order generatePosition's two loops visit them
Cells(ctx) ==
    [i \in 1..(domainWidth(ctx.x) * domainWidth(ctx.y)) |->
        <<ctx.x.domain[1] + ((i - 1) \div domainWidth(ctx.y)),
          ctx.y.domain[1] + ((i - 1) % domainWidth(ctx.y))>>]

\* the filter looking at the head only
isFreeOfHead(s, pos) == ~equalsPair(s.segments[1], pos)

\* the cell passes generatePosition's filter: no segment equals it
isFree(s, pos) == \A i \in 1..Len(s.segments) : ~equalsPair(s.segments[i], pos)

\* CheeseFactory.generatePosition, the list it builds
possible(s, ctx) == SelectSeq(Cells(ctx), LAMBDA pos : isFree(s, pos))

\* CheeseFactory.generatePosition, for Math.floor(Math.random()*length) = choice
generatePosition(s, ctx, choice) ==
    LET pos == possible(s, ctx)[choice + 1] IN Position(pos[1], pos[2], ctx)

\* the values Math.floor(Math.random()*possible.length) can take
Choices(s, ctx) == 0..(Len(possible(s, ctx)) - 1)

\* the values Math.floor(Math.random()*(food[1]-food[0])) + food[0] can take
Foods(factory) == factory.food[1]..(factory.food[2] - 1)

\* CheeseFactory.createCheese
createCheese(s, ctx, choice, food) ==
    [position |-> generatePosition(s, ctx, choice), food |-> food]

\* ----------------------------------------------------------- AppComponent
Revisions == {"part_000", "app.component"}

Keys == {"ArrowLeft", "ArrowRight", "ArrowUp", "ArrowDown", "Other"}

\* AppComponent.getNewDirection (null for a key the switch does not name)
getNewDirection(key) ==
    CASE key = "ArrowLeft" -> left
      [] key = "ArrowRight" -> right
      [] key = "ArrowUp" -> up
      [] key = "ArrowDown" -> down
      [] OTHER -> null

\* AppComponent.handleUserInput, as a function of the current snake
handleUserInput(s, key) ==
    IF getNewDirection(key) # null /\ isTurn(getNewDirection(key), s.direction)
    THEN setDirection(s, getNewDirection(key))
    ELSE s

\* the self-collision test stopping one segment short of the tail
hitsItselfButTail(s) ==
    \E i \in 2..(Len(s.segments) - 1) : equals(s.segments[i], head(s))

\* the test of AppComponent.tick: some segment that is not the head object
\* equals the head
hitsItself(s) == \E i \in 2..Len(s.segments) : equals(s.segments[i], head(s))

\* the cheese test comparing the x coordinates only
onCheeseSameColumn(s, c) == c.position.x = head(s).x

\* the test of AppComponent.tick: the cheese is under the head
onCheese(s, c) == equals(c.position, head(s))

\* the four subscriptions initGame makes, all live
AllLive == [fps |-> TRUE, tps |-> TRUE, input |-> TRUE, end |-> TRUE]

\* a game's subscriptions after unsubscribe() on each, or before initGame
NoneLive == [fps |-> FALSE, tps |-> FALSE, input |-> FALSE, end |-> FALSE]

\* the three subscriptions ngAfterViewInit makes in app.component.ts
OldLive == [fps |-> TRUE, tps |-> TRUE, input |-> TRUE, end |-> FALSE]

\* no eat() yet on this snake
NoGrowth == [valid |-> FALSE, len |-> 0, at |-> 0, f |-> 0, before |-> 0,
             alive |-> FALSE]

\* takeUntil(this._snake.died$): died$ of the current snake completes the
\* tick stream of the game that built that snake
takeUntilDied(sb, g) == [sb EXCEPT ![g].tps = FALSE]

\* subEnd's handler, first line: unsubscribe everything in _subscriptions
unsubscribeAll(sb, arr) == [sb EXCEPT ![arr] = NoneLive]

\* does the subEnd handler of the current game run on this died$ emission
\* (with _subscriptions null its first line throws before it changes anything)
endRuns(sb, g, arr) == sb[g].end /\ arr # 0

\* the subscriptions after this._died$.next(): the takeUntil notifier was
\* subscribed first, subEnd second
Died(sb, g, arr) ==
    IF endRuns(sb, g, arr)
    THEN unsubscribeAll(takeUntilDied(sb, g), arr)
    ELSE takeUntilDied(sb, g)

\* a timer callback of the tick stream of game g: AppComponent.tick
tick(g) ==
    /\ subs[g].tps
    /\ LET moved == SnakeTick(snake, positionContext)
           killed == hitsItself(moved)
           s2 == IF killed THEN kill(moved) ELSE moved
           ends == killed /\ endRuns(subs, game, subscriptions)
           subs2 == IF killed THEN Died(subs, game, subscriptions) ELSE subs
           eats == onCheese(s2, cheese)
           s3 == IF eats THEN eat(s2, cheese) ELSE s2
       IN  /\ snake' = s3
           /\ ticks' = ticks + 1
           /\ kills' = IF killed THEN kills + 1 ELSE kills
           /\ notified' = IF ends THEN notified + 1 ELSE notified
           /\ redraws' = IF ends THEN redraws + 1 ELSE redraws
           /\ gameOver' = IF ends THEN TRUE ELSE gameOver
           /\ subscriptions' = IF ends THEN 0 ELSE subscriptions
           /\ growth' = IF eats
                        THEN [valid |-> TRUE, len |-> Len(s3.segments),
                              at |-> ticks + 1, f |-> cheese.food,
                              before |-> s2.food, alive |-> ~s2.dead]
                        ELSE growth
           /\ eaten' = IF eats THEN eaten + cheese.food ELSE eaten
           /\ thrown' = (thrown \/ (eats /\ Choices(s3, positionContext) = {}))
           /\ IF ~eats
              THEN cheese' = cheese /\ subs' = subs2
              ELSE IF Choices(s3, positionContext) # {}
              THEN /\ \E choice \in Choices(s3, positionContext),
                         food \in Foods(cheeseFactory) :
                         cheese' = createCheese(s3, positionContext, choice, food)
                   /\ subs' = subs2
              \* possible is empty: possible[choice] is undefined and reading
              \* [0] of it throws inside the timer callback; the cheese stays,
              \* and whether the throwing subscription is closed depends on
              \* the rxjs version
              ELSE /\ cheese' = cheese
                   /\ \E closed \in BOOLEAN :
                         subs' = IF closed THEN [subs2 EXCEPT ![g].tps = FALSE]
                                 ELSE subs2
    /\ UNCHANGED <<revision, positionContext, cheeseFactory, game, call>>

RECURSIVE deliver(_, _, _)
\* one keydown event, handled by the first n live input subscriptions
deliver(s, key, n) ==
    IF n = 0 THEN s ELSE deliver(handleUserInput(s, key), key, n - 1)

\* how many handlers one keydown event runs
inputHandlers == Cardinality({g \in Games : subs[g].input})

\* a keydown event on window
keydown(key) ==
    /\ snake' = deliver(snake, key, inputHandlers)
    /\ UNCHANGED <<revision, positionContext, cheeseFactory, cheese, gameOver,
                   game, subs, subscriptions, ticks, kills, notified, redraws,
                   growth, eaten, thrown, call>>

\* a timer callback of the render stream of game g: AppComponent.redraw
\* (it only reads; the calls after a death are counted)
redraw(g) ==
    /\ subs[g].fps
    /\ snake.dead => redraws < MaxRedraws
    /\ redraws' = IF snake.dead THEN redraws + 1 ELSE redraws
    /\ UNCHANGED <<revision, positionContext, cheeseFactory, snake, cheese,
                   gameOver, game, subs, subscriptions, ticks, kills, notified,
                   growth, eaten, thrown, call>>

\* AppComponent.initGame as the g-th game (the grid has a free cell: every
\* domain of Domains has more than one cell)
initGame(g) ==
    /\ snake' = NewSnake(Position(StartX, StartY, positionContext),
                         InitialFood, right)
    /\ \E choice \in Choices(snake', positionContext),
          food \in Foods(cheeseFactory) :
          cheese' = createCheese(snake', positionContext, choice, food)
    /\ gameOver' = FALSE
    /\ game' = g
    /\ subscriptions' = g
    /\ ticks' = 0
    /\ kills' = 0
    /\ notified' = 0
    /\ redraws' = 0
    /\ growth' = NoGrowth
    /\ eaten' = 0
    /\ thrown' = FALSE

\* AppComponent.restart
restart ==
    /\ revision = "part_000"
    /\ game < MaxGames
    /\ initGame(game + 1)
    /\ subs' = [subs EXCEPT ![game + 1] = AllLive]
    /\ UNCHANGED <<revision, positionContext, cheeseFactory, call>>

\* the domains ngAfterViewInit gives the PositionContext, scaled down
Contexts ==
    {[x |-> [domain |-> d], y |-> [domain |-> d]] : d \in Domains}

\* no direct call yet
NoCall == [op |-> "none", x |-> 0, y |-> 0, index |-> 0,
           position |-> [x |-> 0, y |-> 0], result |-> 0]

\* AppComponent.ngAfterViewInit, for the revisions, the domains and the food
\* intervals given
ngAfterViewInit(revisions, contexts, intervals) ==
    /\ revision \in revisions
    /\ positionContext \in contexts
    /\ cheeseFactory \in {[food |-> f] : f \in intervals}
    /\ snake = NewSnake(Position(StartX, StartY, positionContext),
                        InitialFood, right)
    /\ \E choice \in Choices(snake, positionContext),
          food \in Foods(cheeseFactory) :
          cheese = createCheese(snake, positionContext, choice, food)
    /\ gameOver = FALSE
    /\ game = 1
    /\ subs = [g \in Games |->
                 IF g # 1 THEN NoneLive
                 ELSE IF revision = "part_000" THEN AllLive ELSE OldLive]
    /\ subscriptions = IF revision = "part_000" THEN 1 ELSE 0
    /\ ticks = 0
    /\ kills = 0
    /\ notified = 0
    /\ redraws = 0
    /\ growth = NoGrowth
    /\ eaten = 0
    /\ thrown = FALSE
    /\ call = NoCall

Init == ngAfterViewInit(Revisions, Contexts, FoodIntervals)

\* some live tick stream fires, while the snake has had fewer than limit ticks
timerTick(limit) == ticks < limit /\ \E g \in Games : tick(g)

\* a key is pressed
keyPress == \E key \in Keys : keydown(key)

\* some live render stream fires
timerRedraw == \E g \in Games : redraw(g)

Next ==
    \/ timerTick(MaxTicks)
    \/ keyPress
    \/ timerRedraw
    \/ restart

\* both revisions, every grid, restart() at any moment
Spec == Init /\ [][Next]_vars

\* one game of part_000 that is never restarted, followed for more ticks
InitLong == Init /\ revision = "part_000"

NextLong ==
    \/ timerTick(MaxLongTicks)
    \/ keyPress
    \/ timerRedraw

SpecLong == InitLong /\ [][NextLong]_vars

\* the domains and the food interval ngAfterViewInit sets
DriverContext == [x |-> [domain |-> <<0, 20>>], y |-> [domain |-> <<0, 20>>]]

\* the driver's grid, the food interval scaled down, no key pressed
InitScenario == ngAfterViewInit({"part_000"}, {DriverContext}, FoodIntervals)

NextScenario ==
    \/ timerTick(MaxScenarioTicks)
    \/ timerRedraw

SpecScenario == InitScenario /\ [][NextScenario]_vars

\* everything but call
gameVars == <<revision, positionContext, cheeseFactory, snake, cheese,
              gameOver, game, subs, subscriptions, ticks, kills, notified,
              redraws, growth, eaten, thrown>>

\* a direct call of PositionContext.applyDomain
callApplyDomain(x, y) ==
    /\ call' = [op |-> "applyDomain", x |-> x, y |-> y, index |-> 0,
                position |-> [x |-> applyDomain(x, y, positionContext)[1],
                              y |-> applyDomain(x, y, positionContext)[2]],
                result |-> 0]
    /\ UNCHANGED gameVars

\* new Position(x, y, context).getIndex()
callGetIndex(x, y) ==
    /\ call' = [op |-> "getIndex", x |-> x, y |-> y, index |-> 0,
                position |-> Position(x, y, positionContext),
                result |-> getIndex(Position(x, y, positionContext),
                                    positionContext)]
    /\ UNCHANGED gameVars

\* Position.fromIndex(index, context)
callFromIndex(index) ==
    /\ call' = [op |-> "fromIndex", x |-> 0, y |-> 0, index |-> index,
                position |-> fromIndex(index, positionContext),
                result |-> 0]
    /\ UNCHANGED gameVars

\* grids that are not square, domains that do not start at 0
CallContexts ==
    {[x |-> [domain |-> dx], y |-> [domain |-> dy]] : dx, dy \in CallDomains}

\* the game as set up when Math.random() returns 0
InitCalls ==
    /\ ngAfterViewInit({"part_000"}, CallContexts, FoodIntervals)
    /\ cheese = createCheese(snake, positionContext, 0, cheeseFactory.food[1])

normalize == \E x, y \in (-MaxArg)..MaxArg : callApplyDomain(x, y)

linearIndex == \E x, y \in (-MaxArg)..MaxArg : callGetIndex(x, y)

cellOfIndex == \E index \in 0..MaxIndex : callFromIndex(index)

NextCalls ==
    \/ normalize
    \/ linearIndex
    \/ cellOfIndex

\* the methods of Position and PositionContext called directly
SpecCalls == InitCalls /\ [][NextCalls]_vars

(***************************************************************************)
(* Vocabulary of the properties, stated without the operators above.       *)
(***************************************************************************)
Min(a, b) == IF a < b THEN a ELSE b

\* the head shares its cell with a segment that is not the head
HeadOnBody(s) == \E i \in 2..Len(s.segments) : s.segments[i] = s.segments[1]

\* the cell p lies in both domains
InDomain(p, ctx) ==
    /\ ctx.x.domain[1] <= p.x /\ p.x < ctx.x.domain[2]
    /\ ctx.y.domain[1] <= p.y /\ p.y < ctx.y.domain[2]

\* the cell p is a segment of s
OnSnake(p, s) == \E i \in 1..Len(s.segments) : s.segments[i] = p

Opposite(d) == [dx |-> -d.dx, dy |-> -d.dy]

Perpendicular(d, e) == d.dx * e.dx + d.dy * e.dy = 0

\* v moved by dv on a wrap-around axis
Wrapped(v, dv, axis) ==
    axis.domain[1] + ((v + dv - axis.domain[1]) % (axis.domain[2] - axis.domain[1]))

\* v lies in the domain of the axis
InAxis(v, axis) == axis.domain[1] <= v /\ v < axis.domain[2]

\* out is the value of the axis' domain congruent to v modulo its width
Normalized(v, out, axis) ==
    /\ InAxis(out, axis)
    /\ (out - v) % (axis.domain[2] - axis.domain[1]) = 0

\* the pairs of segments of s that share a cell
Coinciding(s) ==
    {pair \in (1..Len(s.segments)) \X (1..Len(s.segments)) :
        pair[1] < pair[2] /\ s.segments[pair[1]] = s.segments[pair[2]]}

\* the step keeps the snake object (no initGame in it)
SameSnake == game' = game

\* the step is a call of AppComponent.tick
IsTick == ticks' # ticks

(***************************************************************************)
(* C1. The snake is dead after a driver tick exactly if its head shares a  *)
(* cell with another segment at the end of that tick or did so at the end  *)
(* of an earlier one; the first kill() comes with the first coincidence.   *)
(***************************************************************************)
C1_DeadIffCollided ==
    [][SameSnake =>
          /\ snake'.dead = (snake.dead \/ HeadOnBody(snake'))
          /\ (kills = 0 => ((kills' > 0) = HeadOnBody(snake')))]_vars

C1_Witness ==
    /\ snake.dead /\ kills = 1 /\ ticks = 3
    /\ HeadOnBody(snake)
    /\ domainWidth(positionContext.x) = 3

(***************************************************************************)
(* C2 as claimed. After eat(cheese) with food value f on an alive snake    *)
(* the length grows by one on each of the next f ticks and not after.      *)
(***************************************************************************)
C2_GrowsByCheeseFood ==
    (growth.valid /\ growth.alive /\ ~snake.dead) =>
        Len(snake.segments) = growth.len + Min(ticks - growth.at, growth.f)

(***************************************************************************)
(* C2 amended. After eat(cheese) with food value f on an alive snake that  *)
(* had p pending food, the length grows by one on each of the next p + f   *)
(* ticks and is unchanged by every later tick until the next eat.          *)
(***************************************************************************)
C2_GrowsByPendingFood ==
    (growth.valid /\ growth.alive) =>
        /\ Len(snake.segments) =
              growth.len + Min(ticks - growth.at, growth.before + growth.f)
        /\ snake.food =
              growth.before + growth.f
                  - Min(ticks - growth.at, growth.before + growth.f)

\* pending food was eaten on, the snake grew p + f times and then a tick
\* left its length alone
C2_Witness ==
    /\ growth.valid /\ growth.alive /\ ~snake.dead
    /\ growth.before > 0
    /\ ticks - growth.at > growth.before + growth.f
    /\ Len(snake.segments) = growth.len + growth.before + growth.f
    /\ snake.food = 0

(***************************************************************************)
(* C3. Whenever createCheese has run with a free cell left, the cheese it  *)
(* returned lies in the domain and on no segment of the snake.             *)
(***************************************************************************)
C3_CheeseOffSnake ==
    [][cheese' # cheese =>
          /\ InDomain(cheese'.position, positionContext')
          /\ ~OnSnake(cheese'.position, snake')]_vars

\* a snake of five segments has just eaten and a new cheese is out
C3_Witness ==
    /\ growth.valid /\ growth.at = ticks
    /\ Len(snake.segments) >= 5
    /\ ~OnSnake(cheese.position, snake)

(***************************************************************************)
(* C4 as claimed, for both revisions. Once the snake has died no timer     *)
(* tick and no key event changes it, and redraw ran exactly once since.    *)
(***************************************************************************)
C4_StreamsCancelledOnDeath ==
    [][(snake.dead /\ SameSnake) => (snake' = snake /\ redraws' = 1)]_vars

(***************************************************************************)
(* C5 as claimed. On a dead snake Snake.tick() and the direction setter    *)
(* change nothing.                                                         *)
(***************************************************************************)
C5_DeadSnakeIgnoresCalls ==
    snake.dead =>
        /\ SnakeTick(snake, positionContext) = snake
        /\ \A d \in Directions : setDirection(snake, d) = snake

(***************************************************************************)
(* C6 as claimed. Whenever restart() has run, no subscription of an        *)
(* earlier game is live: one tick stream drives the snake, one handler     *)
(* takes each key, and a dead snake is ticked by nothing.                  *)
(***************************************************************************)
C6_NothingLeaksAcrossRestart ==
    /\ \A g \in Games : g # game => subs[g] = NoneLive
    /\ Cardinality({g \in Games : subs[g].tps}) <= 1
    /\ inputHandlers <= 1
    /\ snake.dead => \A g \in Games : ~subs[g].tps

(***************************************************************************)
(* C7 as claimed. A dead snake stays dead, its death reaches the driver    *)
(* once (gameOver goes true once and stays), and kill() runs at most once  *)
(* on one snake.                                                           *)
(***************************************************************************)
C7_DeathIsOneShot ==
    [][SameSnake =>
          /\ snake.dead => snake'.dead
          /\ gameOver => gameOver'
          /\ notified' <= 1
          /\ (revision = "part_000" /\ snake'.dead) => (gameOver' /\ notified' = 1)
          /\ kills' <= 1]_vars

(***************************************************************************)
(* C8. No tick commits the opposite of the direction the tick before       *)
(* committed, and a key naming the committed direction or its opposite     *)
(* changes neither the committed nor the queued direction.                 *)
(***************************************************************************)
C8_NoReversal ==
    [][SameSnake =>
          /\ snake'.direction # Opposite(snake.direction)
          /\ \A key \in Keys :
                (/\ getNewDirection(key) \in
                        {snake.direction, Opposite(snake.direction)}
                 /\ keydown(key))
                => snake' = snake]_vars

C8_Witness ==
    /\ ~snake.dead /\ ticks >= 2
    /\ snake.direction = left

(***************************************************************************)
(* C9. For every direction d, d.isTurn(previous) is true exactly when d is *)
(* perpendicular to previous, false when d is previous or its opposite;    *)
(* previous ranges over what the key handler passes, the committed         *)
(* direction.                                                              *)
(***************************************************************************)
C9_TurnLegality ==
    \A d \in Directions :
        /\ isTurn(d, snake.direction) = Perpendicular(d, snake.direction)
        /\ d \in {snake.direction, Opposite(snake.direction)}
              => ~isTurn(d, snake.direction)

C9_Witness ==
    /\ snake.direction = down
    /\ snake.nextDirection = left

(***************************************************************************)
(* C10. A key press never changes the committed direction; an accepted key *)
(* press replaces whatever was queued; a tick commits the queued           *)
(* direction if there is one, moves the head one cell in the committed     *)
(* direction and leaves the queue empty.                                   *)
(***************************************************************************)
C10_PendingDirection ==
    [][SameSnake =>
          /\ ~IsTick => snake'.direction = snake.direction
          /\ \A key \in Keys :
                (/\ inputHandlers > 0
                 /\ getNewDirection(key) # null
                 /\ Perpendicular(getNewDirection(key), snake.direction)
                 /\ keydown(key))
                => snake'.nextDirection = getNewDirection(key)
          /\ IsTick =>
                /\ snake'.direction =
                      IF snake.nextDirection \in Directions
                      THEN snake.nextDirection ELSE snake.direction
                /\ snake'.nextDirection = null
                /\ snake'.segments[1].x =
                      Wrapped(snake.segments[1].x, snake'.direction.dx,
                              positionContext.x)
                /\ snake'.segments[1].y =
                      Wrapped(snake.segments[1].y, snake'.direction.dy,
                              positionContext.y)]_vars

C10_Witness ==
    /\ ticks >= 2 /\ ~snake.dead
    /\ snake.direction = up
    /\ snake.nextDirection = null
    /\ snake.segments[2].y # snake.segments[1].y
    /\ snake.segments[3].y = snake.segments[2].y

(***************************************************************************)
(* C11. On each axis applyDomain returns the one value of the domain that   *)
(* is congruent to its argument modulo the domain's width, for arguments    *)
(* any number of widths below or above the domain; an argument inside the   *)
(* domain comes back unchanged, and applying it to its own result changes   *)
(* nothing.                                                                 *)
(***************************************************************************)
C11_WrapIntoDomain ==
    call.op = "applyDomain" =>
        /\ Normalized(call.x, call.position.x, positionContext.x)
        /\ Normalized(call.y, call.position.y, positionContext.y)
        /\ InAxis(call.x, positionContext.x) => call.position.x = call.x
        /\ InAxis(call.y, positionContext.y) => call.position.y = call.y
        /\ applyDomain(call.position.x, call.position.y, positionContext)
              = <<call.position.x, call.position.y>>

\* x more than a width below its domain, y more than a width above
C11_Witness ==
    /\ call.op = "applyDomain"
    /\ call.x < positionContext.x.domain[1] - domainWidth(positionContext.x)
    /\ call.y >= positionContext.y.domain[2] + domainWidth(positionContext.y)
    /\ domainWidth(positionContext.x) # domainWidth(positionContext.y)
    /\ call.position.x # positionContext.x.domain[1]

(***************************************************************************)
(* C12. In every reachable state every segment of the snake and the cheese *)
(* lie in the domain on both axes: a step off an edge lands on the         *)
(* opposite edge, never outside.                                           *)
(***************************************************************************)
C12_EverythingInDomain ==
    /\ \A i \in 1..Len(snake.segments) :
          InDomain(snake.segments[i], positionContext)
    /\ InDomain(cheese.position, positionContext)

\* the snake went up from the lowest row into the highest and then left from
\* the first column into the last
C12_Witness ==
    /\ Len(snake.segments) >= 3
    /\ snake.direction = left
    /\ snake.segments[3].y = positionContext.y.domain[1]
    /\ snake.segments[2].y = positionContext.y.domain[2] - 1
    /\ snake.segments[2].x = positionContext.x.domain[1]
    /\ snake.segments[1].x = positionContext.x.domain[2] - 1
    /\ domainWidth(positionContext.x) = 3

(***************************************************************************)
(* C13 as claimed. On the driver's 20 by 20 grid, from (5,5) going right   *)
(* with initial food 4, no key pressed and no cheese eaten: after the      *)
(* first tick the head is at (6,5), the snake has 5 segments and 3 pending *)
(* food; after 4 more ticks it has 8 segments and the head is at (10,5).   *)
(***************************************************************************)
C13_ScenarioAsClaimed ==
    eaten = 0 =>
        /\ ticks = 1 =>
              /\ snake.segments[1] = [x |-> 6, y |-> 5]
              /\ Len(snake.segments) = 5
              /\ snake.food = 3
        /\ ticks = 5 =>
              /\ Len(snake.segments) = 8
              /\ snake.segments[1] = [x |-> 10, y |-> 5]

(***************************************************************************)
(* C13 amended. In the same session: after the first tick the head is at   *)
(* (6,5), the snake has 2 segments and 3 pending food; after 4 more ticks  *)
(* it has 5 segments and the head is at (10,5).                            *)
(***************************************************************************)
C13_ScenarioFromOneSegment ==
    eaten = 0 =>
        /\ ticks = 1 =>
              /\ snake.segments[1] = [x |-> 6, y |-> 5]
              /\ Len(snake.segments) = 2
              /\ snake.food = 3
        /\ ticks = 5 =>
              /\ Len(snake.segments) = 5
              /\ snake.segments[1] = [x |-> 10, y |-> 5]

\* five ticks in, nothing eaten
C13_Witness ==
    /\ positionContext = DriverContext
    /\ ticks = 5 /\ eaten = 0 /\ ~snake.dead
    /\ snake.food = 0
    /\ snake.segments[5] = [x |-> 6, y |-> 5]

(***************************************************************************)
(* C14 as claimed. createCheese called with the snake on every cell of the *)
(* grid ends in a defined outcome: generatePosition never indexes into its *)
(* empty list of candidates (never throws), and the game is left with no   *)
(* cheese lying under the snake that has just eaten it.                    *)
(***************************************************************************)
C14_FullGridSpawnDefined ==
    /\ ~thrown
    /\ (growth.valid /\ growth.at = ticks) => ~OnSnake(cheese.position, snake)

(***************************************************************************)
(* C15. In every reachable state the snake has at least one segment, so    *)
(* its head is defined: no run of ticks, eats and direction changes takes  *)
(* the last segment away.                                                  *)
(***************************************************************************)
C15_SegmentsNeverEmpty == Len(snake.segments) >= 1

\* the pending food ran out and two ticks have dropped the tail since
C15_Witness ==
    /\ snake.food = 0 /\ eaten = 0
    /\ ticks = InitialFood + 2
    /\ Len(snake.segments) = 1 + InitialFood

(***************************************************************************)
(* C16. getIndex maps the cells of the grid one-to-one onto                *)
(* 0 .. widthX*widthY - 1 and fromIndex is its inverse, also on grids that *)
(* are not square and whose domains do not start at 0: the index of a      *)
(* position is in that range and fromIndex of it is the position; the      *)
(* position of an index in that range is in the domain and getIndex of it  *)
(* is the index.                                                           *)
(***************************************************************************)
C16_IndexBijection ==
    LET cells == domainWidth(positionContext.x) * domainWidth(positionContext.y)
    IN  /\ call.op = "getIndex" =>
              /\ call.result \in 0..(cells - 1)
              /\ fromIndex(call.result, positionContext) = call.position
        /\ (call.op = "fromIndex" /\ call.index < cells) =>
              /\ InDomain(call.position, positionContext)
              /\ getIndex(call.position, positionContext) = call.index

\* the last cell of a 3 by 2 grid whose domains start below 0
C16_Witness ==
    /\ call.op = "getIndex"
    /\ positionContext.x.domain = <<-1, 2>>
    /\ positionContext.y.domain = <<-4, -2>>
    /\ call.position = [x |-> 1, y |-> -3]
    /\ call.result = 5

(***************************************************************************)
(* C17. One tick of an alive snake with n segments and p pending food: the *)
(* new head is the old head moved one cell, with wrap-around, in the       *)
(* direction the tick committed; every kept segment moves one place back;  *)
(* with p > 0 all n segments are kept and p goes down by one, with p = 0   *)
(* the tail is dropped and p stays 0 (the food of a cheese eaten in the    *)
(* same driver tick is added afterwards).                                  *)
(***************************************************************************)
C17_OneSnakeTick ==
    [][(IsTick /\ SameSnake /\ ~snake.dead) =>
          /\ snake'.segments[1].x =
                Wrapped(snake.segments[1].x, snake'.direction.dx,
                        positionContext.x)
          /\ snake'.segments[1].y =
                Wrapped(snake.segments[1].y, snake'.direction.dy,
                        positionContext.y)
          /\ Len(snake'.segments) =
                IF snake.food > 0 THEN Len(snake.segments) + 1
                ELSE Len(snake.segments)
          /\ \A i \in 1..(Len(snake'.segments) - 1) :
                snake'.segments[i + 1] = snake.segments[i]
          /\ snake'.food - (eaten' - eaten) =
                IF snake.food > 0 THEN snake.food - 1 ELSE 0]_vars

\* a snake that has eaten, used up its food and turned is moving at a
\* constant length
C17_Witness ==
    /\ ~snake.dead /\ snake.food = 0
    /\ eaten >= 1
    /\ ticks > InitialFood + eaten + 1
    /\ Len(snake.segments) = 1 + InitialFood + eaten
    /\ snake.direction # right

(***************************************************************************)
(* C18. As long as every createCheese of the game found a free cell, the   *)
(* cheese lies on no segment of the snake after initGame and after every   *)
(* driver tick, and a driver tick replaces the cheese exactly if it moved  *)
(* the head onto the cheese's cell; nothing else replaces it.              *)
(***************************************************************************)
C18_CheeseReplacedWhenEaten ==
    /\ [](~thrown => ~OnSnake(cheese.position, snake))
    /\ [][(SameSnake /\ ~thrown') =>
              /\ IsTick =>
                    ((cheese' # cheese) <=>
                        (snake'.segments[1] = cheese.position))
              /\ ~IsTick => cheese' = cheese]_vars

\* two cheeses eaten, the third is out and a tick has passed it by
C18_Witness ==
    /\ eaten >= 2 /\ ~thrown
    /\ growth.at < ticks
    /\ Len(snake.segments) >= 5
    /\ ~OnSnake(cheese.position, snake)

(***************************************************************************)
(* C19. Within one game, the number of segments plus the pending food is   *)
(* 1 plus the initial food plus the food of all the cheeses the snake has  *)
(* eaten; the pending food is never negative.                              *)
(***************************************************************************)
C19_LengthAccounting ==
    /\ Len(snake.segments) + snake.food = 1 + InitialFood + eaten
    /\ snake.food >= 0

\* two cheeses eaten and all the food turned into segments
C19_Witness ==
    /\ eaten >= 2
    /\ snake.food = 0
    /\ Len(snake.segments) = 1 + InitialFood + eaten
    /\ growth.before = 0

(***************************************************************************)
(* C20 as claimed. At the end of every driver tick the segments of a snake *)
(* that is not dead lie on pairwise distinct cells, so there are at most   *)
(* as many as the grid has cells; a dead snake has exactly one pair of     *)
(* segments on the same cell, and the head is one of the two.              *)
(***************************************************************************)
C20_DistinctUntilDeath ==
    /\ ~snake.dead =>
          /\ Coinciding(snake) = {}
          /\ Len(snake.segments) <=
                domainWidth(positionContext.x) * domainWidth(positionContext.y)
    /\ snake.dead =>
          /\ Cardinality(Coinciding(snake)) = 1
          /\ \E pair \in Coinciding(snake) : pair[1] = 1

(***************************************************************************)
(* C21 as claimed. The driver tick in which kill() fires eats no cheese,   *)
(* and once the snake is dead (its death has been notified) no step        *)
(* changes its pending food or the cheese.                                 *)
(***************************************************************************)
C21_NothingEatenAfterDeath ==
    [][SameSnake =>
          /\ kills' # kills => (eaten' = eaten /\ cheese' = cheese)
          /\ snake.dead => (snake'.food = snake.food /\ cheese' = cheese)]_vars

====
